---- MODULE Spec2Model ----
(***************************************************************************)
(* Launch and run-resumption logic of main_train.py: main_worker resolves  *)
(* the configuration and either spawns one distributed_worker per GPU or   *)
(* calls main itself; main resolves the training horizon, picks the model  *)
(* wrapper, restores state and builds the Trainer.                         *)
(***************************************************************************)
EXTENDS Integers, FiniteSets, Sequences, TLC

\* ------------------------------------------------------------------ bounds
\* Largest GPU count torch.cuda.device_count() reports in the model.
MaxGpus == 3

\* ------------------------------------------------------- program constants
\* from common import DEFAULT_EPOCHS, DEFAULT_ITERATIONS, ... (lines 23-28)
DEFAULT_ITERATIONS == 300000
DEFAULT_EPOCHS == 300
DEFAULT_MAX_ITERATIONS == 10000000
DEFAULT_MAX_EPOCHS == 10000000

\* --------------------------------------------------------- python values
\* An attribute of opts is absent (Missing), None, or an integer.
Missing == [t |-> "Missing", v |-> 0]
None == [t |-> "None", v |-> 0]
I(n) == [t |-> "int", v |-> n]
IsInt(x) == x.t = "int"

\* getattr(opts, name, default), given the attribute's stored value.
getattr(x, default) == IF x = Missing THEN default ELSE x

\* torch.device values: "cpu", "cuda", f"cuda:{i}".
CpuDevice == [t |-> "cpu", v |-> 0]
CudaDevice == [t |-> "cuda", v |-> 0]
CudaIndexed(i) == [t |-> "cuda:i", v |-> i]

PARENT == -1
Workers == 0 .. (MaxGpus - 1)
Procs == {PARENT} \cup Workers

\* Ports the OS may hand to _find_free_port.
Ports == {29500, 29501}

VARIABLES
    host,        \* hardware and installation: n_gpus, n_cpus, cuda, has_wandb
    args,        \* the options get_training_arguments parsed, as given
    checkpoint,  \* content of the checkpoint file load_checkpoint reads
    opts,        \* opts[p]: the configuration object of each live process
    kwargs,      \* kwargs[p]: the kwargs each live process passes on
    pc,          \* pc[p]: position of each process
    trainers,    \* Trainer constructions: one record per call of main
    wandb_inits, \* calls of wandb.init: [proc, rank]
    dirs         \* directories created by create_directories: [proc, rank]

vars == <<host, args, checkpoint, opts, kwargs, pc, trainers, wandb_inits, dirs>>

\* ------------------------------------------------------------ collaborators
\* utils.ddp_utils.is_master: the process whose ddp.rank is 0.
is_master(o) == getattr(o.ddp_rank, I(0)) = I(0)

\* utils.common_utils.device_setup: records the GPU count and the device.
device_setup(o) ==
    [o EXCEPT !.dev_num_gpus = host.n_gpus,
              !.dev_device = IF host.n_gpus = 0 THEN CpuDevice ELSE CudaDevice]

\* utils.common_utils.create_directories: only the master creates exp_dir.
create_directories(p, o, is_master_node) ==
    IF is_master_node
    THEN dirs \cup {[proc |-> p, rank |-> getattr(o.ddp_rank, I(0))]}
    ELSE dirs

\* utils.ddp_utils.distributed_init: joins the process group under ddp.rank
\* and returns the rank the group reports for this process.
distributed_init(o) == o.ddp_rank

\* utils.checkpoint_utils.load_checkpoint: the counters of one checkpoint read.
load_checkpoint(o) ==
    [start_epoch |-> checkpoint.epoch,
     start_iteration |-> checkpoint.iteration,
     best_metric |-> checkpoint.best_metric]

\* ------------------------------------------------------------- main_worker
\* use_distributed without the num_gpus <= 1 override of lines 235-236
use_distributed_unforced(o) == ~o.ddp_disable

\* lines 232-236
use_distributed(o) ==
    IF o.dev_num_gpus <= 1 THEN FALSE ELSE ~o.ddp_disable

\* line 245: the condition of the spawning branch
SpawnCond(o) == o.ddp_use_distributed /\ ~o.ddp_no_spawn /\ host.cuda

\* lines 214-244
MainWorkerSetup ==
    /\ pc[PARENT] = "start"
    /\ LET o1 == device_setup(opts[PARENT])
           is_master_node == is_master(o1)
       IN /\ dirs' = create_directories(PARENT, o1, is_master_node)
          /\ opts' = [opts EXCEPT ![PARENT] =
                         [o1 EXCEPT !.ddp_use_distributed = use_distributed(o1)]]
    /\ pc' = [pc EXCEPT ![PARENT] = "setup"]
    /\ UNCHANGED <<host, args, checkpoint, kwargs, trainers, wandb_inits>>

\* lines 245-263: world size, data workers and start rank of the spawning branch
resolve_ddp(o, kw) ==
    LET num_gpus == o.dev_num_gpus
        world_size == getattr(o.ddp_world_size, I(-1))
        dataset_workers == getattr(o.dataset_workers, I(-1))
        start_rank == getattr(o.ddp_rank, I(0))
        o1 == [o EXCEPT !.dev_device_id = getattr(o.ddp_device_id, None)]
        o2 == IF world_size = I(-1)
              THEN [o1 EXCEPT !.ddp_world_size = I(num_gpus)]
              ELSE o1
        o3 == IF dataset_workers = I(-1) \/ dataset_workers = None
              THEN [o2 EXCEPT !.dataset_workers = I(host.n_cpus \div num_gpus)]
              ELSE o2
    IN [opts |-> [o3 EXCEPT !.ddp_rank = None, !.ddp_start_rank = start_rank],
        kwargs |-> [kw EXCEPT !.start_rank = start_rank]]

\* lines 266-276: _find_free_port and its store
set_dist_port(o, port) == [o EXCEPT !.ddp_dist_port = I(port)]

\* lines 245-276: everything the parent does before torch.multiprocessing.spawn
MainWorkerDDP ==
    /\ pc[PARENT] = "setup"
    /\ SpawnCond(opts[PARENT])
    /\ \E port \in Ports :
          LET r == resolve_ddp(opts[PARENT], kwargs[PARENT])
          IN /\ opts' = [opts EXCEPT ![PARENT] = set_dist_port(r.opts, port)]
             /\ kwargs' = [kwargs EXCEPT ![PARENT] = r.kwargs]
    /\ pc' = [pc EXCEPT ![PARENT] = "spawning"]
    /\ UNCHANGED <<host, args, checkpoint, trainers, wandb_inits, dirs>>

\* nprocs of torch.multiprocessing.spawn (line 281)
nprocs(o) == o.dev_num_gpus

\* lines 278-282: spawn starts process i with its own copy of (main, opts, kwargs);
\* processes are started in the order 0, 1, ..., nprocs - 1.
SpawnWorker(i) ==
    /\ pc[PARENT] = "spawning"
    /\ i < nprocs(opts[PARENT])
    /\ pc[i] = "unborn"
    /\ \A j \in Workers : j < i => pc[j] # "unborn"
    /\ opts' = (i :> opts[PARENT]) @@ opts
    /\ kwargs' = (i :> kwargs[PARENT]) @@ kwargs
    /\ pc' = [pc EXCEPT ![i] = "spawned",
                        ![PARENT] = IF i + 1 = nprocs(opts[PARENT])
                                    THEN "joining" ELSE "spawning"]
    /\ UNCHANGED <<host, args, checkpoint, trainers, wandb_inits, dirs>>

\* resolve_local scaling by num_gpus itself instead of max(1, num_gpus)
resolve_local_unclamped(o) ==
    LET num_gpus == o.dev_num_gpus
        dataset_workers == getattr(o.dataset_workers, I(-1))
        o1 == IF dataset_workers = I(-1)
              THEN [o EXCEPT !.dataset_workers = I(host.n_cpus)]
              ELSE o
        o2 == IF o.norm_name \in {"sync_batch_norm", "sbn"}
              THEN [o1 EXCEPT !.norm_name = "batch_norm"]
              ELSE o1
    IN [o2 EXCEPT !.train_batch_size0 =
                      I(getattr(o.train_batch_size0, I(32)).v * num_gpus),
                  !.val_batch_size0 =
                      I(getattr(o.val_batch_size0, I(32)).v * num_gpus),
                  !.dev_device_id = None]

\* lines 284-295: the branch without spawning
resolve_local(o) ==
    LET num_gpus == o.dev_num_gpus
        dataset_workers == getattr(o.dataset_workers, I(-1))
        norm_name == o.norm_name
        max1 == IF num_gpus > 1 THEN num_gpus ELSE 1
        o1 == IF dataset_workers = I(-1)
              THEN [o EXCEPT !.dataset_workers = I(host.n_cpus)]
              ELSE o
        o2 == IF norm_name \in {"sync_batch_norm", "sbn"}
              THEN [o1 EXCEPT !.norm_name = "batch_norm"]
              ELSE o1
        train_bsize == getattr(o.train_batch_size0, I(32)).v * max1
        val_bsize == getattr(o.val_batch_size0, I(32)).v * max1
    IN [o2 EXCEPT !.train_batch_size0 = I(train_bsize),
                  !.val_batch_size0 = I(val_bsize),
                  !.dev_device_id = None]

MainWorkerLocal ==
    /\ pc[PARENT] = "setup"
    /\ ~SpawnCond(opts[PARENT])
    /\ opts' = [opts EXCEPT ![PARENT] = resolve_local(opts[PARENT])]
    /\ pc' = [pc EXCEPT ![PARENT] = "local"]
    /\ UNCHANGED <<host, args, checkpoint, kwargs, trainers, wandb_inits, dirs>>

\* ------------------------------------------------------ distributed_worker
\* bind_worker giving every worker the start rank, without its local index
bind_worker_same_rank(i, o, kw) ==
    LET o1 == [o EXCEPT !.dev_device_id = I(i), !.dev_device = CudaIndexed(i)]
    IN IF getattr(o1.ddp_rank, None) = None
       THEN [o1 EXCEPT !.ddp_rank = getattr(kw.start_rank, I(0))]
       ELSE o1

\* bind_worker in which each worker derives a rendezvous port of its own
bind_worker_own_port(i, o, kw) ==
    LET o1 == [o EXCEPT !.dev_device_id = I(i), !.dev_device = CudaIndexed(i),
                        !.ddp_dist_port = I(o.ddp_dist_port.v + i)]
    IN IF getattr(o1.ddp_rank, None) = None
       THEN [o1 EXCEPT !.ddp_rank = I(getattr(kw.start_rank, I(0)).v + i)]
       ELSE o1

\* lines 199-206: device binding and the rank of worker i
bind_worker(i, o, kw) ==
    LET o1 == [o EXCEPT !.dev_device_id = I(i), !.dev_device = CudaIndexed(i)]
        ddp_rank == getattr(o1.ddp_rank, None)
    IN IF ddp_rank = None
       THEN [o1 EXCEPT !.ddp_rank = I(getattr(kw.start_rank, I(0)).v + i)]
       ELSE o1

DistributedWorkerBind(i) ==
    /\ pc[i] = "spawned"
    /\ opts' = [opts EXCEPT ![i] = bind_worker(i, opts[i], kwargs[i])]
    /\ pc' = [pc EXCEPT ![i] = "rendezvous"]
    /\ UNCHANGED <<host, args, checkpoint, kwargs, trainers, wandb_inits, dirs>>

\* lines 208-209: distributed_init returns once every worker of this node has
\* reached the rendezvous; its result becomes ddp.rank.
DistributedInit(i) ==
    /\ pc[i] = "rendezvous"
    /\ \A j \in Workers :
          j < nprocs(opts[i]) => pc[j] \in {"rendezvous", "joined", "done"}
    /\ opts' = [opts EXCEPT ![i].ddp_rank = distributed_init(opts[i])]
    /\ pc' = [pc EXCEPT ![i] = "joined"]
    /\ UNCHANGED <<host, args, checkpoint, kwargs, trainers, wandb_inits, dirs>>

\* -------------------------------------------------------------------- main
\* the tracker block of lines 41-54 without its is_master guard
tracker_gate_open(o) == TRUE

\* lines 41-54: the tracker is initialised by the master only
tracker_gate(o) == is_master(o)

\* horizon resolution testing < 0 where lines 70 and 79 test <= 0
horizon_zero_kept(o) ==
    IF o.is_iteration_based
    THEN LET max_iter == getattr(o.max_iterations, I(DEFAULT_ITERATIONS))
             o1 == IF max_iter = None \/ (IsInt(max_iter) /\ max_iter.v < 0)
                   THEN [o EXCEPT !.max_iterations = I(DEFAULT_ITERATIONS)]
                   ELSE o
         IN [o1 EXCEPT !.max_epochs = I(DEFAULT_MAX_EPOCHS)]
    ELSE LET max_epochs == getattr(o.max_epochs, I(DEFAULT_EPOCHS))
             o1 == IF max_epochs = None \/ (IsInt(max_epochs) /\ max_epochs.v < 0)
                   THEN [o EXCEPT !.max_epochs = I(DEFAULT_EPOCHS)]
                   ELSE o
         IN [o1 EXCEPT !.max_iterations = I(DEFAULT_MAX_ITERATIONS)]

\* lines 67-85: horizon resolution
horizon(o) ==
    IF o.is_iteration_based
    THEN LET max_iter == getattr(o.max_iterations, I(DEFAULT_ITERATIONS))
             o1 == IF max_iter = None \/ (IsInt(max_iter) /\ max_iter.v <= 0)
                   THEN [o EXCEPT !.max_iterations = I(DEFAULT_ITERATIONS)]
                   ELSE o
         IN [o1 EXCEPT !.max_epochs = I(DEFAULT_MAX_EPOCHS)]
    ELSE LET max_epochs == getattr(o.max_epochs, I(DEFAULT_EPOCHS))
             o1 == IF max_epochs = None \/ (IsInt(max_epochs) /\ max_epochs.v <= 0)
                   THEN [o EXCEPT !.max_epochs = I(DEFAULT_EPOCHS)]
                   ELSE o
         IN [o1 EXCEPT !.max_iterations = I(DEFAULT_MAX_ITERATIONS)]

\* lines 104-126: placement and replication wrapper of the model
wrapper(o) ==
    LET num_gpus == o.dev_num_gpus
        is_distributed == o.ddp_use_distributed
    IN IF num_gpus = 0 THEN "none"
       ELSE IF num_gpus = 1 THEN "none"
       ELSE IF is_distributed THEN "DistributedDataParallel"
       ELSE "DataParallel"

\* lines 150-155: the counters of a fresh run
fresh_state(o) ==
    [start_epoch |-> 0,
     start_iteration |-> 0,
     best_metric |-> IF o.checkpoint_metric_max THEN "0.0" ELSE "inf"]

\* lines 156-178: which loader runs
recovery_path(o) ==
    LET resume_loc == getattr(o.resume, None)
        finetune_loc == getattr(o.finetune_imagenet1k, None)
        auto_resume == o.auto_resume
    IN IF resume_loc # None \/ auto_resume THEN "load_checkpoint"
       ELSE IF finetune_loc # None THEN "load_model_state"
       ELSE "fresh"

\* resumed_state keeping the fresh start_iteration on the resume path
resumed_state_mixed(o) ==
    IF recovery_path(o) = "load_checkpoint"
    THEN [load_checkpoint(o) EXCEPT !.start_iteration = 0]
    ELSE fresh_state(o)

\* lines 150-178: the counters handed to the Trainer
resumed_state(o) ==
    IF recovery_path(o) = "load_checkpoint" THEN load_checkpoint(o) ELSE fresh_state(o)

\* lines 40-195, entered from distributed_worker (line 210) or main_worker (line 296)
Main(p) ==
    /\ pc[p] = IF p = PARENT THEN "local" ELSE "joined"
    /\ LET o == opts[p]
           log_wandb == IF tracker_gate(o) THEN o.log_wandb /\ host.has_wandb
                        ELSE o.log_wandb
           o1 == horizon([o EXCEPT !.log_wandb = log_wandb])
           st == resumed_state(o1)
       IN /\ wandb_inits' = IF tracker_gate(o) /\ log_wandb
                            THEN wandb_inits \cup
                                    {[proc |-> p, rank |-> getattr(o.ddp_rank, I(0))]}
                            ELSE wandb_inits
          /\ opts' = [opts EXCEPT ![p] = o1]
          /\ trainers' = trainers \cup
                {[proc |-> p,
                  rank |-> getattr(o1.ddp_rank, I(0)),
                  dev_id |-> getattr(o1.dev_device_id, CpuDevice),
                  wrapper |-> wrapper(o1),
                  path |-> recovery_path(o1),
                  start_epoch |-> st.start_epoch,
                  start_iteration |-> st.start_iteration,
                  best_metric |-> st.best_metric]}
    /\ pc' = [pc EXCEPT ![p] = "done"]
    /\ UNCHANGED <<host, args, checkpoint, kwargs, dirs>>

\* line 282: spawn returns when every worker has finished
MainWorkerJoin ==
    /\ pc[PARENT] = "joining"
    /\ \A j \in Workers : j < nprocs(opts[PARENT]) => pc[j] = "done"
    /\ pc' = [pc EXCEPT ![PARENT] = "done"]
    /\ UNCHANGED <<host, args, checkpoint, opts, kwargs, trainers, wandb_inits, dirs>>

Next ==
    \/ MainWorkerSetup
    \/ MainWorkerDDP
    \/ \E i \in Workers : SpawnWorker(i)
    \/ MainWorkerLocal
    \/ \E i \in Workers : DistributedWorkerBind(i)
    \/ \E i \in Workers : DistributedInit(i)
    \/ \E p \in Procs : Main(p)
    \/ MainWorkerJoin

\* ------------------------------------------------------------ initial states
Path == [t |-> "path", v |-> 0]

\* opts as get_training_arguments returns it: launch options l, training options m
RawOpts(l, m) ==
    [ddp_rank |-> l.ddp_rank,
     ddp_world_size |-> l.ddp_world_size,
     ddp_disable |-> l.ddp_disable,
     ddp_no_spawn |-> l.ddp_no_spawn,
     ddp_device_id |-> Missing,
     ddp_use_distributed |-> FALSE,
     ddp_start_rank |-> Missing,
     ddp_dist_port |-> Missing,
     dev_num_gpus |-> 0,
     dev_device |-> CpuDevice,
     dev_device_id |-> Missing,
     dataset_workers |-> l.dataset_workers,
     train_batch_size0 |-> l.train_batch_size0,
     val_batch_size0 |-> l.val_batch_size0,
     norm_name |-> l.norm_name,
     log_wandb |-> m.log_wandb,
     is_iteration_based |-> m.is_iteration_based,
     max_iterations |-> m.max_iterations,
     max_epochs |-> m.max_epochs,
     resume |-> m.resume,
     auto_resume |-> m.auto_resume,
     finetune_imagenet1k |-> m.finetune_imagenet1k,
     checkpoint_metric_max |-> m.checkpoint_metric_max]

\* line 214: opts = get_training_arguments()
InitWith(Machines, Launch, Train, Checkpoints) ==
    /\ host \in Machines
    /\ checkpoint \in Checkpoints
    /\ \E l \in Launch, m \in Train : args = RawOpts(l, m)
    /\ opts = (PARENT :> args)
    /\ kwargs = (PARENT :> [start_rank |-> Missing])
    /\ pc = [p \in Procs |-> IF p = PARENT THEN "start" ELSE "unborn"]
    /\ trainers = {}
    /\ wandb_inits = {}
    /\ dirs = {}

GpuCounts == 0 .. MaxGpus

\* The machines a launch can run on: torch.cuda.is_available() holds exactly
\* when torch.cuda.device_count(), which device_setup stores in dev.num_gpus,
\* is positive.
Hosts(Cpus, Wandb) ==
    {h \in [n_gpus : GpuCounts, n_cpus : Cpus, cuda : BOOLEAN, has_wandb : Wandb] :
        h.cuda = (h.n_gpus > 0)}

OneLaunch ==
    [ddp_rank : {I(0)},
     ddp_world_size : {Missing},
     ddp_disable : {FALSE},
     ddp_no_spawn : {FALSE},
     dataset_workers : {Missing},
     train_batch_size0 : {I(2)},
     val_batch_size0 : {I(3)},
     norm_name : {"batch_norm"}]

OneTrain ==
    [log_wandb : {TRUE},
     is_iteration_based : {FALSE},
     max_iterations : {Missing},
     max_epochs : {I(5)},
     resume : {None},
     auto_resume : {FALSE},
     finetune_imagenet1k : {None},
     checkpoint_metric_max : {FALSE}]

OneCheckpoint == {[epoch |-> 7, iteration |-> 90, best_metric |-> "0.83"]}

\* Launch: every combination of hardware, distributed flags, rank, world size
\* and data workers.
Init ==
    InitWith(Hosts({1, 4}, {TRUE}),
             [ddp_rank : {Missing, I(-1), I(0), I(1)},
              ddp_world_size : {Missing, I(-1), I(4)},
              ddp_disable : BOOLEAN,
              ddp_no_spawn : BOOLEAN,
              dataset_workers : {Missing, None, I(-1), I(2)},
              train_batch_size0 : {I(2)},
              val_batch_size0 : {I(3)},
              norm_name : {"sync_batch_norm"}],
             OneTrain, OneCheckpoint)

Spec == Init /\ [][Next]_vars

\* Batch sizes: every combination of hardware, distributed flags and base sizes.
InitBatch ==
    InitWith(Hosts({4}, {TRUE}),
             [ddp_rank : {I(0)},
              ddp_world_size : {Missing},
              ddp_disable : BOOLEAN,
              ddp_no_spawn : BOOLEAN,
              dataset_workers : {Missing},
              train_batch_size0 : {Missing, I(1), I(2), I(64)},
              val_batch_size0 : {Missing, I(1), I(3)},
              norm_name : {"batch_norm", "sync_batch_norm"}],
             OneTrain, OneCheckpoint)

SpecBatch == InitBatch /\ [][Next]_vars

\* Tracker: every combination of hardware, distributed flags, rank and wandb flags.
InitTracker ==
    InitWith(Hosts({4}, BOOLEAN),
             [ddp_rank : {Missing, I(-1), I(0), I(1)},
              ddp_world_size : {Missing},
              ddp_disable : BOOLEAN,
              ddp_no_spawn : BOOLEAN,
              dataset_workers : {Missing},
              train_batch_size0 : {I(2)},
              val_batch_size0 : {I(3)},
              norm_name : {"batch_norm"}],
             [log_wandb : BOOLEAN,
              is_iteration_based : {FALSE},
              max_iterations : {Missing},
              max_epochs : {I(5)},
              resume : {None},
              auto_resume : {FALSE},
              finetune_imagenet1k : {None},
              checkpoint_metric_max : {FALSE}],
             OneCheckpoint)

SpecTracker == InitTracker /\ [][Next]_vars

\* Horizon: every combination of mode and configured bounds, on every GPU count.
HorizonValues == {Missing, None, I(-1), I(0), I(1), I(500)}

InitHorizon ==
    InitWith(Hosts({4}, {TRUE}),
             OneLaunch,
             [log_wandb : {TRUE},
              is_iteration_based : BOOLEAN,
              max_iterations : HorizonValues,
              max_epochs : HorizonValues,
              resume : {None},
              auto_resume : {FALSE},
              finetune_imagenet1k : {None},
              checkpoint_metric_max : {FALSE}],
             OneCheckpoint)

SpecHorizon == InitHorizon /\ [][Next]_vars

\* Recovery: every combination of resume, auto-resume, fine-tune seed, metric
\* polarity and checkpoint content.
InitResume ==
    InitWith(Hosts({4}, {TRUE}),
             OneLaunch,
             [log_wandb : {TRUE},
              is_iteration_based : {FALSE},
              max_iterations : {Missing},
              max_epochs : {I(5)},
              resume : {Missing, None, Path},
              auto_resume : BOOLEAN,
              finetune_imagenet1k : {Missing, None, Path},
              checkpoint_metric_max : BOOLEAN],
             [epoch : {0, 7}, iteration : {0, 90}, best_metric : {"0.0", "0.83", "inf"}])

SpecResume == InitResume /\ [][Next]_vars

\* ------------------------------------------------------------------ claims
Spawned == DOMAIN opts \ {PARENT}
SetupDone == pc[PARENT] # "start"
\* a process at the moment control is handed to main, or later
HandedOver(p) ==
    IF p = PARENT
    THEN pc[p] = "local" \/ \E t \in trainers : t.proc = PARENT
    ELSE pc[p] \in {"spawned", "rendezvous", "joined", "done"}
Max1(n) == IF n > 1 THEN n ELSE 1

\* C1: once main_worker has resolved the mode, a run with dev.num_gpus <= 1 has
\* ddp.use_distributed = False in every process, whatever ddp.disable says.
C1_SingleGpuNeverDistributed ==
    (SetupDone /\ host.n_gpus <= 1) =>
        \A p \in DOMAIN opts : ~opts[p].ddp_use_distributed

C1_Witness ==
    /\ pc[PARENT] = "done"
    /\ host.n_gpus = 1
    /\ ~args.ddp_disable
    /\ ~opts[PARENT].ddp_use_distributed

C3_LegacyIsDataParallel ==
    (host.n_gpus > 1 /\ (args.ddp_disable \/ args.ddp_no_spawn \/ ~host.cuda)) =>
        /\ Spawned = {}
        /\ \A t \in trainers : t.proc = PARENT /\ t.wrapper = "DataParallel"

\* C4: after main's horizon resolution, in iteration-based mode
\* scheduler.max_iterations is the configured value when that is positive and
\* DEFAULT_ITERATIONS otherwise, and scheduler.max_epochs is DEFAULT_MAX_EPOCHS;
\* in epoch-based mode scheduler.max_epochs is the configured value when that is
\* positive and DEFAULT_EPOCHS otherwise, and scheduler.max_iterations is
\* DEFAULT_MAX_ITERATIONS. An absent attribute reads as main reads it, through
\* getattr with the default of lines 69, 78 and 83.
Positive(x) == IsInt(x) /\ x.v > 0

IsSet(x) == x # Missing /\ x # None

C5_RecoveryAtomic ==
    \A t \in trainers :
        LET resume == IsSet(args.resume) \/ args.auto_resume
            finetune == IsSet(args.finetune_imagenet1k)
        IN /\ t.path = "load_checkpoint" <=> resume
           /\ t.path = "load_model_state" <=> (~resume /\ finetune)
           /\ t.path = "fresh" <=> (~resume /\ ~finetune)
           /\ IF resume
              THEN /\ t.start_epoch = checkpoint.epoch
                   /\ t.start_iteration = checkpoint.iteration
                   /\ t.best_metric = checkpoint.best_metric
              ELSE /\ t.start_epoch = 0
                   /\ t.start_iteration = 0
                   /\ t.best_metric =
                         IF args.checkpoint_metric_max THEN "0.0" ELSE "inf"

C5_Witness ==
    \E t \in trainers :
        /\ args.resume = Path
        /\ IsSet(args.finetune_imagenet1k)
        /\ args.checkpoint_metric_max
        /\ checkpoint = [epoch |-> 7, iteration |-> 90, best_metric |-> "0.83"]
        /\ t.start_epoch = 7 /\ t.start_iteration = 90 /\ t.best_metric = "0.83"

\* C6: without spawning, the train and validation batch sizes handed to main are
\* the base sizes (32 when not given) times max(1, num_gpus); under spawning
\* every worker sees the base sizes as configured.
C6_BatchScaling ==
    \A p \in DOMAIN opts :
        HandedOver(p) =>
            IF p = PARENT
            THEN /\ opts[p].train_batch_size0 =
                       I(getattr(args.train_batch_size0, I(32)).v * Max1(host.n_gpus))
                 /\ opts[p].val_batch_size0 =
                       I(getattr(args.val_batch_size0, I(32)).v * Max1(host.n_gpus))
            ELSE /\ opts[p].train_batch_size0 = args.train_batch_size0
                 /\ opts[p].val_batch_size0 = args.val_batch_size0

C6_Witness ==
    /\ pc[PARENT] = "done"
    /\ Spawned = {}
    /\ host.n_gpus = 3
    /\ args.train_batch_size0 = I(64)
    /\ opts[PARENT].train_batch_size0 = I(192)
    /\ opts[PARENT].val_batch_size0 = I(96)

C6_WitnessSpawned ==
    \E t \in trainers :
        /\ t.proc # PARENT
        /\ opts[t.proc].train_batch_size0 = I(64)

\* C7 (as claimed): when control is handed to main or to a spawned worker,
\* ddp.world_size is no longer -1 (num_gpus when it was unset, 1 on a CPU run)
\* and dataset.workers is neither -1 nor None (CPU_count in a single-process run,
\* CPU_count // num_gpus under spawning, when it was unset).
Unset(x) == x \in {Missing, None, I(-1)}

C7_NoAutoPlaceholders ==
    \A p \in DOMAIN opts :
        HandedOver(p) =>
            LET o == opts[p]
                world_size == getattr(o.ddp_world_size, I(-1))
                dataset_workers == getattr(o.dataset_workers, I(-1))
            IN /\ world_size # I(-1)
               /\ Unset(args.ddp_world_size) =>
                     world_size = I(Max1(host.n_gpus))
               /\ dataset_workers # I(-1) /\ dataset_workers # None
               /\ Unset(args.dataset_workers) =>
                     dataset_workers = IF p = PARENT
                                       THEN I(host.n_cpus)
                                       ELSE I(host.n_cpus \div host.n_gpus)

\* C8: every spawned worker holds, at every moment of its life, the world size,
\* start rank and rendezvous port the parent resolved before spawning: the
\* values are resolved (no sentinel, not absent), equal the parent's, and no
\* worker step changes them.
C8_ParentResolvesBeforeSpawn ==
    \A i \in Spawned :
        /\ IsInt(opts[i].ddp_world_size) /\ opts[i].ddp_world_size # I(-1)
        /\ IsInt(opts[i].ddp_start_rank)
        /\ IsInt(opts[i].ddp_dist_port) /\ opts[i].ddp_dist_port.v \in Ports
        /\ opts[i].ddp_world_size = opts[PARENT].ddp_world_size
        /\ opts[i].ddp_start_rank = opts[PARENT].ddp_start_rank
        /\ opts[i].ddp_dist_port = opts[PARENT].ddp_dist_port
        /\ kwargs[i].start_rank = opts[PARENT].ddp_start_rank
        /\ kwargs[PARENT].start_rank = opts[PARENT].ddp_start_rank

C8_Witness ==
    /\ pc[PARENT] = "joining"
    /\ Spawned = {0, 1}
    /\ pc[0] = "done" /\ pc[1] = "rendezvous"
    /\ args.ddp_world_size = I(-1)
    /\ opts[1].ddp_world_size = I(2)
    /\ opts[1].ddp_dist_port = I(29501)

\* C9: wandb.init and the creation of the results directory are performed only
\* by a process whose rank is 0 at that moment, and wandb.init happens at most
\* once per launch.
C9_MasterOnlySideEffects ==
    /\ \A e \in wandb_inits \cup dirs : e.rank = I(0)
    /\ Cardinality(wandb_inits) <= 1

C9_Witness ==
    /\ pc[PARENT] = "done"
    /\ Cardinality(Spawned) >= 2
    /\ args.ddp_rank = I(-1)
    /\ wandb_inits = {[proc |-> 1, rank |-> I(0)]}
    /\ dirs = {}

\* C10 (as claimed): every process that enters main has a rank >= 0.
C10_RankNonNegative ==
    \A t \in trainers : t.rank.v >= 0

====
